---- MODULE Spec2Model ----
(***************************************************************************)
(* Model of app.py, the trend keyword digest: sources are fetched and      *)
(* parsed into (source, title, link) items, the titles are tokenized and   *)
(* the tokens ranked, a digest page and an index entry are written under   *)
(* docs/, and a parent message with threaded follow-ups goes to Slack.     *)
(*                                                                         *)
(* A text is a sequence of one-character strings, so that lower(),         *)
(* upper(), strip(), split() and the two regular expressions are computed  *)
(* character by character; titles, links and channel references are texts. *)
(* Source names, URLs of sources and file names are only compared and stay *)
(* plain strings.                                                          *)
(***************************************************************************)
EXTENDS Integers, Sequences, FiniteSets, TLC

VARIABLES
    pc,                     \* position of the process (or of the function under check)
    result,                 \* "running", "returned" or "raised"
    TOP_K,                  \* app.py:19, read from the environment at import
    POST_LIMIT_PER_SOURCE,  \* app.py:20, read from the environment at import
    SLACK_CHANNEL_ID_RAW,   \* app.py:23, read from the environment at import
    sources,                \* what load_sources() returned: [html, rss], each a sequence of [name, url]
    gi,                     \* index of the next source in the group being fetched
    items,                  \* main(): the accumulated item list
    top_list,               \* analyze(): the ranked (keyword, count) list
    related_map,            \* analyze(): keyword -> evidence items
    date_label,             \* main(): the date label of the run
    fs,                     \* the files under docs/: path -> text
    fs0,                    \* fs as it was when the process started
    saved,                  \* the date labels save_markdown was called with, in order
    requests,               \* the URLs requested by fetch_html / fetch_rss, in order
    out,                    \* the lines printed so far
    posts,                  \* the chat_postMessage calls made, in order
    channel_id,             \* what resolve_channel_id returned
    thread_ts,              \* timestamp of the delivered parent message
    ti,                     \* index into top_list[:3] of the next threaded follow-up
    deduped,                \* dedup(items)
    deduped2                \* dedup(dedup(items))

vars == <<pc, result, TOP_K, POST_LIMIT_PER_SOURCE, SLACK_CHANNEL_ID_RAW, sources, gi, items,
          top_list, related_map, date_label, fs, fs0, saved, requests, out, posts, channel_id,
          thread_ts, ti, deduped, deduped2>>

-----------------------------------------------------------------------------
(* Bounds of the model. *)

MaxDedupLen == 3
MaxItems == 3
MaxTopK == 3
MaxPostLimit == 2
MaxPieces == 3
MaxDays == 3
MaxSaves == 3
MaxHtml == 1
MaxRss == 1

(* Constants of the program. *)

DefaultTopK == 10
DefaultPostLimit == 5

-----------------------------------------------------------------------------
(* Characters and texts. *)

UpperLetters == <<"A", "B", "C", "D", "E", "F", "G", "H", "I", "J", "K", "L", "M", "N", "O", "P", "Q", "R", "S", "T", "U", "V", "W", "X", "Y", "Z">>
LowerLetters == <<"a", "b", "c", "d", "e", "f", "g", "h", "i", "j", "k", "l", "m", "n", "o", "p", "q", "r", "s", "t", "u", "v", "w", "x", "y", "z">>
DigitChars == <<"0", "1", "2", "3", "4", "5", "6", "7", "8", "9">>

Range(s) == {s[i] : i \in 1..Len(s)}

Min(a, b) == IF a < b THEN a ELSE b

UpperSet == Range(UpperLetters)
LowerSet == Range(LowerLetters)
DigitSet == Range(DigitChars)
AlNumSet == UpperSet \cup LowerSet \cup DigitSet

IndexOf(s, c) == CHOOSE i \in 1..Len(s) : s[i] = c

\* str.lower() and str.upper() on the ASCII characters of the model
LowerChar(c) == IF c \in UpperSet THEN LowerLetters[IndexOf(UpperLetters, c)] ELSE c
UpperChar(c) == IF c \in LowerSet THEN UpperLetters[IndexOf(LowerLetters, c)] ELSE c
lower(t) == [i \in 1..Len(t) |-> LowerChar(t[i])]
upper(t) == [i \in 1..Len(t) |-> UpperChar(t[i])]

\* str.isdigit(): non-empty and digits only
isdigit(t) == Len(t) > 0 /\ \A i \in 1..Len(t) : t[i] \in DigitSet

-----------------------------------------------------------------------------
(* dedup, app.py:63-72 *)

Item(src, title, link) == [src |-> src, title |-> title, link |-> link]

dedup_key(it) == <<lower(it.title), it.link>>

RECURSIVE dedup_loop(_, _, _, _)
dedup_loop(its, i, seen, acc) ==
    IF i > Len(its) THEN acc
    ELSE LET key == dedup_key(its[i]) IN
         IF key \in seen
         THEN dedup_loop(its, i + 1, seen, acc)
         ELSE dedup_loop(its, i + 1, seen \cup {key}, Append(acc, its[i]))

\* the bug of a key that keeps the letter case of the title
RECURSIVE dedup_loop_case(_, _, _, _)
dedup_loop_case(its, i, seen, acc) ==
    IF i > Len(its) THEN acc
    ELSE LET key == <<its[i].title, its[i].link>> IN
         IF key \in seen
         THEN dedup_loop_case(its, i + 1, seen, acc)
         ELSE dedup_loop_case(its, i + 1, seen \cup {key}, Append(acc, its[i]))

dedup_case(its) == dedup_loop_case(its, 1, {}, <<>>)

dedup(its) == dedup_loop(its, 1, {}, <<>>)

-----------------------------------------------------------------------------
(* extract_tokens, app.py:33-37 and 135-143 *)

TokenMinTail == 1
TokenMaxTail == 30

TokenTailSet == AlNumSet \cup {"#", "+", ".", "-"}

STOPWORDS == {
    <<"t", "h", "e">>, <<"o", "f">>, <<"a", "n", "d">>, <<"f", "o", "r">>, <<"w", "i", "t", "h">>,
    <<"f", "r", "o", "m">>, <<"t", "h", "i", "s">>, <<"t", "h", "a", "t">>, <<"w", "h", "a", "t">>,
    <<"w", "h", "e", "n">>, <<"w", "h", "e", "r", "e">>, <<"h", "o", "w">>, <<"w", "h", "y">>,
    <<"w", "h", "o">>, <<"w", "h", "o", "s", "e">>, <<"y", "o", "u", "r">>, <<"y", "o", "u">>,
    <<"i", "n", "t", "o">>, <<"o", "u", "t">>, <<"a", "r", "e">>, <<"i", "s">>, <<"i", "n">>,
    <<"o", "n">>, <<"t", "o">>, <<"a">>, <<"a", "n">>, <<"b", "y">>, <<"a", "t">>, <<"a", "s">>,
    <<"o", "r">>, <<"n", "o", "t">>, <<"h", "o", "m", "e">>, <<"a", "b", "o", "u", "t">>,
    <<"l", "o", "g", "i", "n">>, <<"s", "i", "g", "n", "u", "p">>, <<"t", "a", "g", "s">>,
    <<"j", "o", "b", "s">>, <<"h", "e", "l", "p">>, <<"p", "r", "i", "v", "a", "c", "y">>,
    <<"t", "e", "r", "m", "s">>,
    <<"s", "t", "a", "c", "k", "e", "x", "c", "h", "a", "n", "g", "e">>,
    <<"s", "t", "a", "c", "k", "o", "v", "e", "r", "f", "l", "o", "w">>,
    <<"q", "i", "i", "t", "a">>, <<"g", "i", "t", "h", "u", "b">>,
    <<"t", "r", "e", "n", "d", "i", "n", "g">>, <<"f", "o", "l", "l", "o", "w">>,
    <<"i", "s", "s", "u", "e">>, <<"p", "u", "l", "l">> }

\* the greedy run [A-Za-z0-9#+.-]{1,30} from position i on: how many characters it takes
RECURSIVE TailRun(_, _, _)
TailRun(text, i, n) ==
    IF i <= Len(text) /\ n < TokenMaxTail /\ text[i] \in TokenTailSet
    THEN TailRun(text, i + 1, n + 1)
    ELSE n

\* TOKEN_RE.finditer(text): the non-overlapping matches, leftmost first
RECURSIVE TOKEN_RE_finditer(_, _)
TOKEN_RE_finditer(text, i) ==
    IF i > Len(text) THEN <<>>
    ELSE LET n == TailRun(text, i + 1, 0) IN
         IF text[i] \in AlNumSet /\ n >= TokenMinTail
         THEN <<SubSeq(text, i, i + n)>> \o TOKEN_RE_finditer(text, i + n + 1)
         ELSE TOKEN_RE_finditer(text, i + 1)

token_dropped(w) == lower(w) \in STOPWORDS \/ isdigit(lower(w)) \/ Len(w) <= 1

extract_tokens(text) == SelectSeq(TOKEN_RE_finditer(text, 1), LAMBDA w : ~token_dropped(w))

-----------------------------------------------------------------------------
(* analyze, app.py:145-157 *)

\* counter[t] += 1 on a Counter (a dict: the keys stay in insertion order)
CounterInc(counter, t) ==
    IF \E i \in 1..Len(counter) : counter[i].k = t
    THEN [i \in 1..Len(counter) |->
            IF counter[i].k = t THEN [k |-> t, c |-> counter[i].c + 1] ELSE counter[i]]
    ELSE Append(counter, [k |-> t, c |-> 1])

\* TLC evaluates an argument when it is first read: a loop reads its accumulator before
\* the next turn, so that the turns are evaluated one after the other
Evaluated(v) == v = v

RECURSIVE CountTokens(_, _, _)
CountTokens(counter, toks, j) ==
    IF j > Len(toks) THEN counter
    ELSE LET c == CounterInc(counter, toks[j]) IN
         IF Evaluated(c) THEN CountTokens(c, toks, j + 1) ELSE c

RECURSIVE CountItems(_, _, _)
CountItems(counter, its, i) ==
    IF i > Len(its) THEN counter
    ELSE LET c == CountTokens(counter, extract_tokens(its[i].title), 1) IN
         IF Evaluated(c) THEN CountItems(c, its, i + 1) ELSE c

RemoveAt(s, i) == SubSeq(s, 1, i - 1) \o SubSeq(s, i + 1, Len(s))

MaxCount(counter) == CHOOSE m \in {counter[i].c : i \in 1..Len(counter)} :
                        \A i \in 1..Len(counter) : counter[i].c <= m

\* the bug of a selection that is not stable: among equal counts the last inserted wins
RECURSIVE most_common_last(_, _)
most_common_last(counter, n) ==
    IF n <= 0 \/ Len(counter) = 0 THEN <<>>
    ELSE LET m == MaxCount(counter)
             i == CHOOSE x \in 1..Len(counter) :
                     /\ counter[x].c = m
                     /\ \A y \in (x + 1)..Len(counter) : counter[y].c # m
         IN <<counter[i]>> \o most_common_last(RemoveAt(counter, i), n - 1)

\* the bug of a cut-off one entry short
RECURSIVE most_common_short(_, _)
most_common_short(counter, n) ==
    IF n <= 1 \/ Len(counter) = 0 THEN <<>>
    ELSE LET m == MaxCount(counter)
             i == CHOOSE x \in 1..Len(counter) :
                     /\ counter[x].c = m
                     /\ \A y \in 1..(x - 1) : counter[y].c # m
         IN <<counter[i]>> \o most_common_short(RemoveAt(counter, i), n - 1)

\* Counter.most_common(n): the n entries of highest count, by count descending,
\* entries of equal count in insertion order (sorted(..., reverse=True)[:n] is stable)
RECURSIVE most_common(_, _)
most_common(counter, n) ==
    IF n <= 0 \/ Len(counter) = 0 THEN <<>>
    ELSE LET m == MaxCount(counter)
             i == CHOOSE x \in 1..Len(counter) :
                     /\ counter[x].c = m
                     /\ \A y \in 1..(x - 1) : counter[y].c # m
         IN <<counter[i]>> \o most_common(RemoveAt(counter, i), n - 1)

\* the bug of an evidence test that forgets the link
RelatedAccepts_nolink(related, k, it, toks, limit) ==
    k \in toks /\ Len(related[k]) < limit

\* app.py:155
RelatedAccepts(related, k, it, toks, limit) ==
    k \in toks /\ it.link # <<>> /\ Len(related[k]) < limit

RECURSIVE RelatedKeys(_, _, _, _, _, _)
RelatedKeys(related, top, j, it, toks, limit) ==
    IF j > Len(top) THEN related
    ELSE LET k == top[j].k
             r == IF RelatedAccepts(related, k, it, toks, limit)
                  THEN [related EXCEPT ![k] = Append(@, it)]
                  ELSE related
         IN IF Evaluated(r) THEN RelatedKeys(r, top, j + 1, it, toks, limit) ELSE r

RECURSIVE RelatedItems(_, _, _, _, _)
RelatedItems(related, top, its, i, limit) ==
    IF i > Len(its) THEN related
    ELSE LET r == RelatedKeys(related, top, 1, its[i],
                              Range(extract_tokens(its[i].title)), limit)
         IN IF Evaluated(r) THEN RelatedItems(r, top, its, i + 1, limit) ELSE r

\* analyze under given values of the module globals TOP_K and POST_LIMIT_PER_SOURCE
analyze_with(its, topk, limit) ==
    LET counter == CountItems(<<>>, its, 1)
        top == most_common(counter, topk)
        related == [k \in {top[j].k : j \in 1..Len(top)} |-> <<>>]
    IN [top |-> top, related |-> RelatedItems(related, top, its, 1, limit)]

analyze(its) == analyze_with(its, TOP_K, POST_LIMIT_PER_SOURCE)

-----------------------------------------------------------------------------
(* resolve_channel_id, app.py:29-30 and 218-226 *)

IdMinTail == 8

WhiteSet == {" ", "\t", "\n"}
WordSet == AlNumSet \cup {"_"}
IdTailSet == UpperSet \cup DigitSet

RECURSIVE lstrip(_, _)
lstrip(t, S) == IF Len(t) > 0 /\ t[1] \in S THEN lstrip(Tail(t), S) ELSE t

RECURSIVE rstrip(_, _)
rstrip(t, S) ==
    IF Len(t) > 0 /\ t[Len(t)] \in S THEN rstrip(SubSeq(t, 1, Len(t) - 1), S) ELSE t

strip(t) == rstrip(lstrip(t, WhiteSet), WhiteSet)

\* the run of non-whitespace characters from position i on: its length
RECURSIVE WordRun(_, _)
WordRun(t, i) == IF i <= Len(t) /\ t[i] \notin WhiteSet THEN 1 + WordRun(t, i + 1) ELSE 0

\* str.split(): the whitespace-delimited tokens
RECURSIVE split(_, _)
split(t, i) ==
    IF i > Len(t) THEN <<>>
    ELSE IF t[i] \in WhiteSet THEN split(t, i + 1)
    ELSE LET n == WordRun(t, i) IN <<SubSeq(t, i, i + n - 1)>> \o split(t, i + n)

\* the greedy run [A-Z0-9]* from position i on: its length
RECURSIVE IdRun(_, _)
IdRun(t, i) == IF i <= Len(t) /\ t[i] \in IdTailSet THEN 1 + IdRun(t, i + 1) ELSE 0

\* \b[CG][A-Z0-9]{8,}\b matches at position i; the run is taken whole, a shorter one would
\* end inside a word
ID_RE_at(t, i) ==
    /\ t[i] \in {"C", "G"}
    /\ (i = 1 \/ t[i - 1] \notin WordSet)
    /\ LET n == IdRun(t, i + 1) IN
         /\ n >= IdMinTail
         /\ (i + n = Len(t) \/ t[i + n + 1] \notin WordSet)

\* ID_RE.search(t): the leftmost match, if any
ID_RE_search(t) ==
    IF \E i \in 1..Len(t) : ID_RE_at(t, i)
    THEN LET i == CHOOSE x \in 1..Len(t) :
                     ID_RE_at(t, x) /\ \A y \in 1..(x - 1) : ~ID_RE_at(t, y)
         IN [found |-> TRUE, text |-> SubSeq(t, i, i + IdRun(t, i + 1))]
    ELSE [found |-> FALSE, text |-> <<>>]

resolve_channel_id(raw) ==
    IF raw = <<>> THEN [raised |-> "RuntimeError", value |-> <<>>]
    ELSE LET s == strip(raw)
             m == ID_RE_search(upper(s))
             names == split(lstrip(s, {"#"}), 1)
         IN IF m.found THEN [raised |-> "", value |-> m.text]
            ELSE IF names = <<>> THEN [raised |-> "IndexError", value |-> <<>>]
            ELSE [raised |-> "", value |-> names[1]]

-----------------------------------------------------------------------------
(* save_markdown, app.py:163-190 *)

\* A file text is a sequence of atoms: the newline NL and the text of a line.
NL == [t |-> "nl"]
Blank == [t |-> "blank"]                         \* the empty line ""
IndexTitle == [t |-> "index_title"]              \* the line "# ..." of app.py:183
DocTitle(d) == [t |-> "doc_title", date |-> d]   \* app.py:166
RankLine(i, k, c) == [t |-> "rank", i |-> i, k |-> k, c |-> c]   \* app.py:168
Rule == [t |-> "rule"]                           \* "\n---\n", app.py:169
Heading(k) == [t |-> "heading", k |-> k]         \* app.py:174
LinkLine(it) == [t |-> "link", title |-> it.title, link |-> it.link, src |-> it.src]
Entry(d) == [t |-> "entry", date |-> d]          \* app.py:186

\* the characters of one element of a list of lines
LineText(l) == IF l = Blank THEN <<>> ELSE IF l = Rule THEN <<NL, Rule, NL>> ELSE <<l>>

\* "\n".join(lines)
RECURSIVE Join(_)
Join(lines) ==
    IF lines = <<>> THEN <<>>
    ELSE IF Len(lines) = 1 THEN LineText(lines[1])
    ELSE LineText(lines[1]) \o <<NL>> \o Join(Tail(lines))

\* str.splitlines(): a newline ends a line; no empty last line after a final newline
RECURSIVE splitlines(_, _)
splitlines(text, cur) ==
    IF text = <<>> THEN (IF cur = <<>> THEN <<>> ELSE cur)
    ELSE IF text[1] = NL
         THEN (IF cur = <<>> THEN <<Blank>> ELSE cur) \o splitlines(Tail(text), <<>>)
         ELSE splitlines(Tail(text), <<text[1]>>)

InsertAt(s, i, x) ==
    IF i >= Len(s) THEN Append(s, x)
    ELSE SubSeq(s, 1, i) \o <<x>> \o SubSeq(s, i + 1, Len(s))

WriteFile(f, path, text) == [q \in DOMAIN f \cup {path} |-> IF q = path THEN text ELSE f[q]]

DocPath(d) == "docs/" \o d \o ".md"
IndexPath == "docs/index.md"

RECURSIVE RankLines(_, _)
RankLines(top, i) ==
    IF i > Len(top) THEN <<>>
    ELSE <<RankLine(i, top[i].k, top[i].c)>> \o RankLines(top, i + 1)

\* related_map.get(k, [])
RelatedGet(related, k) == IF k \in DOMAIN related THEN related[k] ELSE <<>>

RECURSIVE LinkLines(_)
LinkLines(links) ==
    IF links = <<>> THEN <<>>
    ELSE (IF links[1].link # <<>> THEN <<LinkLine(links[1])>> ELSE <<>>) \o LinkLines(Tail(links))

RECURSIVE Sections(_, _, _)
Sections(top, related, i) ==
    IF i > Len(top) THEN <<>>
    ELSE LET links == RelatedGet(related, top[i].k) IN
         (IF links = <<>> THEN <<>>
          ELSE <<Heading(top[i].k)>> \o LinkLines(links) \o <<Blank>>)
         \o Sections(top, related, i + 1)

DocLines(top, related, d) ==
    <<DocTitle(d), Blank>> \o RankLines(top, 1) \o <<Rule>> \o Sections(top, related, 1)

\* the bug of an entry inserted whether or not it is there already
IndexLines_always(f, d) ==
    LET base == IF IndexPath \in DOMAIN f THEN splitlines(f[IndexPath], <<>>)
                ELSE <<IndexTitle, Blank>>
    IN InsertAt(base, 2, Entry(d))

\* app.py:182-188
IndexLines(f, d) ==
    LET base == IF IndexPath \in DOMAIN f THEN splitlines(f[IndexPath], <<>>)
                ELSE <<IndexTitle, Blank>>
    IN IF \E i \in 1..Len(base) : base[i] = Entry(d) THEN base ELSE InsertAt(base, 2, Entry(d))

save_markdown(f, top, related, d) ==
    LET f1 == WriteFile(f, DocPath(d), Join(DocLines(top, related, d)))
    IN WriteFile(f1, IndexPath, Join(IndexLines(f1, d)))

\* datetime.now(JST).strftime("%Y-%m-%d"), app.py:308
Pad2(n) == IF n < 10 THEN "0" \o ToString(n) ELSE ToString(n)
strftime(day) == ToString(day.y) \o "-" \o Pad2(day.m) \o "-" \o Pad2(day.d)

-----------------------------------------------------------------------------
(* Sequences of bounded length over a set. *)

SeqsUpTo(S, n) == UNION {[1..m -> S] : m \in 0..n}

-----------------------------------------------------------------------------
(* The values of the variables a specification does not use. *)

NoSources == [html |-> <<>>, rss |-> <<>>]
EmptyFs == <<>>
NoMap == <<>>

IdleRest ==
    /\ result = "running"
    /\ sources = NoSources
    /\ gi = 0
    /\ top_list = <<>>
    /\ related_map = NoMap
    /\ date_label = ""
    /\ fs = EmptyFs
    /\ fs0 = EmptyFs
    /\ saved = <<>>
    /\ requests = <<>>
    /\ out = <<>>
    /\ posts = <<>>
    /\ channel_id = <<>>
    /\ thread_ts = 0
    /\ ti = 0
    /\ deduped = <<>>
    /\ deduped2 = <<>>

-----------------------------------------------------------------------------
(* The parsers, app.py:78-129.  A page is what the selectors of the parsers find *)
(* in it: the anchors a[href^='/articles/'], the anchors a.question-hyperlink,   *)
(* the anchors article h2 a, the paragraphs article p, the item/entry nodes.     *)

Anchor(text, href) == [text |-> text, href |-> href]
FeedEntry(title, href, text) == [title |-> title, href |-> href, text |-> text]

startswith(t, p) == Len(t) >= Len(p) /\ SubSeq(t, 1, Len(p)) = p

RECURSIVE qiita_items(_)
qiita_items(anchors) ==
    IF anchors = <<>> THEN <<>>
    ELSE LET title == anchors[1].text
             link == <<"h", "t", "t", "p", "s", ":", "/", "/", "q", "i", "i", "t", "a", ".", "c", "o", "m">> \o anchors[1].href
         IN (IF title # <<>> /\ link # <<>> THEN <<Item("Qiita", title, link)>> ELSE <<>>)
            \o qiita_items(Tail(anchors))

parse_qiita_trend(page) == dedup(qiita_items(page.articles))

RECURSIVE stackoverflow_items(_)
stackoverflow_items(anchors) ==
    IF anchors = <<>> THEN <<>>
    ELSE LET href == anchors[1].href
             link == IF startswith(href, <<"h", "t", "t", "p">>) THEN href
                     ELSE <<"h", "t", "t", "p", "s", ":", "/", "/", "s", "t", "a", "c", "k", "e", "x", "c", "h", "a", "n", "g", "e", ".", "c", "o", "m">> \o href
         IN (IF href = <<>> THEN <<>> ELSE <<Item("StackOverflow", anchors[1].text, link)>>)
            \o stackoverflow_items(Tail(anchors))

parse_stackoverflow_hot(page) == dedup(stackoverflow_items(page.questions))

RECURSIVE github_repo_items(_)
github_repo_items(anchors) ==
    IF anchors = <<>> THEN <<>>
    ELSE (IF anchors[1].href = <<>> THEN <<>>
          ELSE <<Item("GitHubTrending", anchors[1].text, <<"h", "t", "t", "p", "s", ":", "/", "/", "g", "i", "t", "h", "u", "b", ".", "c", "o", "m">> \o anchors[1].href)>>)
         \o github_repo_items(Tail(anchors))

RECURSIVE github_para_items(_)
github_para_items(paras) ==
    IF paras = <<>> THEN <<>>
    ELSE (IF paras[1] # <<>> THEN <<Item("GitHubTrending", paras[1], <<>>)>> ELSE <<>>)
         \o github_para_items(Tail(paras))

parse_github_trending(page) ==
    dedup(github_repo_items(page.repos) \o github_para_items(page.paras))

RECURSIVE rss_items(_, _)
rss_items(entries, source_name) ==
    IF entries = <<>> THEN <<>>
    ELSE LET link == IF entries[1].href # <<>> THEN entries[1].href ELSE entries[1].text
         IN (IF entries[1].title # <<>> THEN <<Item(source_name, entries[1].title, link)>>
             ELSE <<>>)
            \o rss_items(Tail(entries), source_name)

parse_rss_generic(page, source_name) == dedup(rss_items(page.entries, source_name))

\* the dispatch on the source name, app.py:277-282
parse_html(name, page) ==
    IF name = "qiita_trend" THEN parse_qiita_trend(page)
    ELSE IF name = "stackoverflow_hot" THEN parse_stackoverflow_hot(page)
    ELSE IF name = "github_trending" THEN parse_github_trending(page)
    ELSE <<>>

-----------------------------------------------------------------------------
(* post_to_slack, app.py:228-260 *)

ParentRankLines == 10
ThreadTopN == 3
ThreadLinks == 5

Prefix(s, n) == SubSeq(s, 1, Min(n, Len(s)))

\* resp["ts"] of the delivered parent message
ParentTs == 1

ParentPost(ok) ==
    [kind |-> "parent", channel |-> resolve_channel_id(SLACK_CHANNEL_ID_RAW).value,
     thread_ts |-> 0, keyword |-> <<>>,
     body |-> Prefix(RankLines(top_list, 1), ParentRankLines), ok |-> ok]

ThreadKeyword == top_list[ti].k
ThreadLinksOf(k) == Prefix(RelatedGet(related_map, k), ThreadLinks)

ThreadPost(ok) ==
    [kind |-> "thread", channel |-> channel_id, thread_ts |-> thread_ts,
     keyword |-> ThreadKeyword, body |-> ThreadLinksOf(ThreadKeyword), ok |-> ok]

-----------------------------------------------------------------------------
(* Spec: one run of main(), app.py:266-316, over a docs/ that is empty or holds *)
(* the digest of an earlier run.                                                *)

Warn(what, name) == [msg |-> what, name |-> name]
Status(what) == [msg |-> what, name |-> ""]

HtmlNames == {"qiita_trend", "stackoverflow_hot", "github_trending", "other"}
RssNames == {"feed"}
Source(n) == [name |-> n, url |-> "https://example.org/" \o n]

SourceConfigs ==
    {[html |-> h, rss |-> r] :
        h \in SeqsUpTo({Source(n) : n \in HtmlNames}, MaxHtml),
        r \in SeqsUpTo({Source(n) : n \in RssNames}, MaxRss)}

FeedLink(i) == <<"h", "t", "t", "p", "s", ":", "/", "/", "e", ".", "o", "r", "g", "/">> \o <<DigitChars[i + 1]>>

\* a page with keywords: repeats, an anchor without text, one without href, a paragraph,
\* and more feed entries of one keyword than a thread shows
PageRich ==
    [articles |-> <<Anchor(<<"R", "u", "s", "t", " ", "G", "o", " ", "Z", "i", "g", " ", "N", "i", "m">>, <<"/", "a", "r", "t", "i", "c", "l", "e", "s", "/", "1">>),
                    Anchor(<<>>, <<"/", "a", "r", "t", "i", "c", "l", "e", "s", "/", "2">>),
                    Anchor(<<"R", "U", "S", "T", " ", "G", "O", " ", "Z", "I", "G", " ", "N", "I", "M">>, <<"/", "a", "r", "t", "i", "c", "l", "e", "s", "/", "1">>)>>,
     questions |-> <<Anchor(<<"R", "u", "s", "t", " ", "a", "s", "y", "n", "c">>, <<"/", "q", "u", "e", "s", "t", "i", "o", "n", "s", "/", "1">>),
                     Anchor(<<"G", "o">>, <<>>),
                     Anchor(<<"Z", "i", "g">>, <<"h", "t", "t", "p", "s", ":", "/", "/", "s", "t", "a", "c", "k", "o", "v", "e", "r", "f", "l", "o", "w", ".", "c", "o", "m", "/", "q", "/", "2">>)>>,
     repos |-> <<Anchor(<<"r", "u", "s", "t", "-", "l", "a", "n", "g", " ", "r", "u", "s", "t">>, <<"/", "r", "u", "s", "t", "-", "l", "a", "n", "g", "/", "r", "u", "s", "t">>), Anchor(<<"N", "i", "m">>, <<>>)>>,
     paras |-> <<<<"R", "u", "s", "t", " ", "t", "h", "e", " ", "2", "0", "2", "4">>, <<>>>>,
     entries |-> [i \in 1..(ThreadLinks + 2) |-> FeedEntry(<<"R", "u", "s", "t", " ", "f", "e", "e", "d">>, FeedLink(i), <<>>)]
                 \o <<FeedEntry(<<>>, FeedLink(0), <<>>),
                      FeedEntry(<<"Z", "i", "g">>, <<>>, <<>>),
                      FeedEntry(<<"R", "u", "s", "t", " ", "f", "e", "e", "d">>, <<>>, FeedLink(1))>>]

\* a page whose titles hold stopwords and numbers only
PagePlain ==
    [articles |-> <<Anchor(<<"H", "o", "w", " ", "t", "o">>, <<"/", "a", "r", "t", "i", "c", "l", "e", "s", "/", "3">>)>>,
     questions |-> <<Anchor(<<"W", "h", "a", "t", " ", "i", "s", " ", "t", "h", "i", "s">>, <<"/", "q", "u", "e", "s", "t", "i", "o", "n", "s", "/", "3">>)>>,
     repos |-> <<>>,
     paras |-> <<<<"t", "h", "e", " ", "o", "f", " ", "4", "2">>>>,
     entries |-> <<FeedEntry(<<"2", "0", "2", "4">>, FeedLink(9), <<>>)>>]

Pages == {PageRich, PagePlain}

MainChannelRaws == {<<"C", "1", "2", "3", "4", "5", "6", "7", "8", " ", "#", " ", "m", "a", "i", "n", " ", "c", "h", "a", "n", "n", "e", "l">>, <<"#">>}

PriorDay == [y |-> 2024, m |-> 1, d |-> 1]
RunDays == {[y |-> 2024, m |-> 1, d |-> n] : n \in 1..2}

PriorFs ==
    LET r == analyze_with(<<Item("Qiita", <<"R", "u", "s", "t", " ", "G", "o">>, <<"h", "t", "t", "p", "s", ":", "/", "/", "q", "i", "i", "t", "a", ".", "c", "o", "m", "/", "a", "r", "t", "i", "c", "l", "e", "s", "/", "1">>)>>,
                          DefaultTopK, DefaultPostLimit)
    IN save_markdown(EmptyFs, r.top, r.related, strftime(PriorDay))

Init ==
    /\ pc = "idle"
    /\ result = "running"
    /\ TOP_K = DefaultTopK
    /\ POST_LIMIT_PER_SOURCE = DefaultPostLimit
    /\ SLACK_CHANNEL_ID_RAW = <<>>
    /\ sources = NoSources
    /\ gi = 0
    /\ items = <<>>
    /\ top_list = <<>>
    /\ related_map = NoMap
    /\ date_label = ""
    /\ \/ fs = EmptyFs /\ saved = <<>>
       \/ fs = PriorFs /\ saved = <<strftime(PriorDay)>>
    /\ fs0 = fs
    /\ requests = <<>>
    /\ out = <<>>
    /\ posts = <<>>
    /\ channel_id = <<>>
    /\ thread_ts = 0
    /\ ti = 0
    /\ deduped = <<>>
    /\ deduped2 = <<>>

\* where the fetch loops stand with source i of the group next: <<pc, gi>>
FetchPos(cfg, group, i) ==
    IF group = "html" /\ i <= Len(cfg.html) THEN <<"html", i>>
    ELSE IF group = "html" /\ Len(cfg.rss) >= 1 THEN <<"rss", 1>>
    ELSE IF group = "rss" /\ i <= Len(cfg.rss) THEN <<"rss", i>>
    ELSE <<"check", 0>>

\* import and app.py:267-271 with the channel reference unset: must_env raises
StartWithoutChannel ==
    /\ pc = "idle"
    /\ SLACK_CHANNEL_ID_RAW' = <<>>
    /\ pc' = "done"
    /\ result' = "raised"
    /\ UNCHANGED <<TOP_K, POST_LIMIT_PER_SOURCE, sources, gi, items, top_list, related_map,
                   date_label, fs, fs0, saved, requests, out, posts, channel_id, thread_ts, ti,
                   deduped, deduped2>>

\* import (app.py:19-23) and app.py:267-271
Start ==
    /\ pc = "idle"
    /\ \E raw \in MainChannelRaws, limit \in {DefaultPostLimit, DefaultPostLimit + 1},
          cfg \in SourceConfigs :
         /\ SLACK_CHANNEL_ID_RAW' = raw
         /\ TOP_K' = DefaultTopK
         /\ POST_LIMIT_PER_SOURCE' = limit
         /\ sources' = cfg
         /\ pc' = FetchPos(cfg, "html", 1)[1]
         /\ gi' = FetchPos(cfg, "html", 1)[2]
    /\ items' = <<>>
    /\ UNCHANGED <<result, top_list, related_map, date_label, fs, fs0, saved, requests, out,
                   posts, channel_id, thread_ts, ti, deduped, deduped2>>

\* app.py:283-285 taken as the failure ending the run
FetchHtmlFail_abort ==
    /\ pc = "html"
    /\ requests' = Append(requests, sources.html[gi].url)
    /\ out' = Append(out, Warn("warn_html", sources.html[gi].name))
    /\ pc' = "done"
    /\ result' = "raised"
    /\ UNCHANGED <<TOP_K, POST_LIMIT_PER_SOURCE, SLACK_CHANNEL_ID_RAW, sources, gi, items,
                   top_list, related_map, date_label, fs, fs0, saved, posts, channel_id,
                   thread_ts, ti, deduped, deduped2>>

\* one turn of the loop of app.py:274-286, fetch or parse raising
FetchHtmlFail ==
    /\ pc = "html"
    /\ requests' = Append(requests, sources.html[gi].url)
    /\ out' = Append(out, Warn("warn_html", sources.html[gi].name))
    /\ pc' = FetchPos(sources, "html", gi + 1)[1]
    /\ gi' = FetchPos(sources, "html", gi + 1)[2]
    /\ UNCHANGED <<result, TOP_K, POST_LIMIT_PER_SOURCE, SLACK_CHANNEL_ID_RAW, sources, items,
                   top_list, related_map, date_label, fs, fs0, saved, posts, channel_id,
                   thread_ts, ti, deduped, deduped2>>

\* one turn of the loop of app.py:274-286, the page fetched and parsed
FetchHtmlOk ==
    /\ pc = "html"
    /\ \E page \in Pages : items' = items \o parse_html(sources.html[gi].name, page)
    /\ requests' = Append(requests, sources.html[gi].url)
    /\ pc' = FetchPos(sources, "html", gi + 1)[1]
    /\ gi' = FetchPos(sources, "html", gi + 1)[2]
    /\ UNCHANGED <<result, TOP_K, POST_LIMIT_PER_SOURCE, SLACK_CHANNEL_ID_RAW, sources,
                   top_list, related_map, date_label, fs, fs0, saved, out, posts, channel_id,
                   thread_ts, ti, deduped, deduped2>>

\* one turn of the loop of app.py:289-296, fetch or parse raising
FetchRssFail ==
    /\ pc = "rss"
    /\ requests' = Append(requests, sources.rss[gi].url)
    /\ out' = Append(out, Warn("warn_rss", sources.rss[gi].name))
    /\ pc' = FetchPos(sources, "rss", gi + 1)[1]
    /\ gi' = FetchPos(sources, "rss", gi + 1)[2]
    /\ UNCHANGED <<result, TOP_K, POST_LIMIT_PER_SOURCE, SLACK_CHANNEL_ID_RAW, sources, items,
                   top_list, related_map, date_label, fs, fs0, saved, posts, channel_id,
                   thread_ts, ti, deduped, deduped2>>

\* one turn of the loop of app.py:289-296, the feed fetched and parsed
FetchRssOk ==
    /\ pc = "rss"
    /\ \E page \in Pages : items' = items \o parse_rss_generic(page, sources.rss[gi].name)
    /\ requests' = Append(requests, sources.rss[gi].url)
    /\ pc' = FetchPos(sources, "rss", gi + 1)[1]
    /\ gi' = FetchPos(sources, "rss", gi + 1)[2]
    /\ UNCHANGED <<result, TOP_K, POST_LIMIT_PER_SOURCE, SLACK_CHANNEL_ID_RAW, sources,
                   top_list, related_map, date_label, fs, fs0, saved, out, posts, channel_id,
                   thread_ts, ti, deduped, deduped2>>

\* app.py:298-300
NoItems ==
    /\ pc = "check"
    /\ items = <<>>
    /\ out' = Append(out, Status("no_items"))
    /\ pc' = "done"
    /\ result' = "returned"
    /\ UNCHANGED <<TOP_K, POST_LIMIT_PER_SOURCE, SLACK_CHANNEL_ID_RAW, sources, gi, items,
                   top_list, related_map, date_label, fs, fs0, saved, requests, posts,
                   channel_id, thread_ts, ti, deduped, deduped2>>

\* app.py:303-306 falling through to the emitting steps
NoKeywords_fallthrough ==
    /\ pc = "check"
    /\ items # <<>>
    /\ analyze(items).top = <<>>
    /\ top_list' = analyze(items).top
    /\ related_map' = analyze(items).related
    /\ \E day \in RunDays : date_label' = strftime(day)
    /\ pc' = "save"
    /\ UNCHANGED <<result, TOP_K, POST_LIMIT_PER_SOURCE, SLACK_CHANNEL_ID_RAW, sources, gi,
                   items, fs, fs0, saved, requests, out, posts, channel_id, thread_ts, ti,
                   deduped, deduped2>>

\* app.py:303-306
NoKeywords ==
    /\ pc = "check"
    /\ items # <<>>
    /\ analyze(items).top = <<>>
    /\ top_list' = analyze(items).top
    /\ related_map' = analyze(items).related
    /\ out' = Append(out, Status("no_keywords"))
    /\ pc' = "done"
    /\ result' = "returned"
    /\ UNCHANGED <<TOP_K, POST_LIMIT_PER_SOURCE, SLACK_CHANNEL_ID_RAW, sources, gi, items,
                   date_label, fs, fs0, saved, requests, posts, channel_id, thread_ts, ti,
                   deduped, deduped2>>

\* app.py:303-308
Analyzed ==
    /\ pc = "check"
    /\ items # <<>>
    /\ analyze(items).top # <<>>
    /\ top_list' = analyze(items).top
    /\ related_map' = analyze(items).related
    /\ \E day \in RunDays : date_label' = strftime(day)
    /\ pc' = "save"
    /\ UNCHANGED <<result, TOP_K, POST_LIMIT_PER_SOURCE, SLACK_CHANNEL_ID_RAW, sources, gi,
                   items, fs, fs0, saved, requests, out, posts, channel_id, thread_ts, ti,
                   deduped, deduped2>>

\* app.py:311-312
SaveMarkdown ==
    /\ pc = "save"
    /\ fs' = save_markdown(fs, top_list, related_map, date_label)
    /\ saved' = Append(saved, date_label)
    /\ pc' = "post"
    /\ UNCHANGED <<result, TOP_K, POST_LIMIT_PER_SOURCE, SLACK_CHANNEL_ID_RAW, sources, gi,
                   items, top_list, related_map, date_label, fs0, requests, out, posts,
                   channel_id, thread_ts, ti, deduped, deduped2>>

\* app.py:230 raising
ChannelUnresolved ==
    /\ pc = "post"
    /\ resolve_channel_id(SLACK_CHANNEL_ID_RAW).raised # ""
    /\ pc' = "done"
    /\ result' = "raised"
    /\ UNCHANGED <<TOP_K, POST_LIMIT_PER_SOURCE, SLACK_CHANNEL_ID_RAW, sources, gi, items,
                   top_list, related_map, date_label, fs, fs0, saved, requests, out, posts,
                   channel_id, thread_ts, ti, deduped, deduped2>>

\* app.py:229-242, the parent message delivered
PostParentOk ==
    /\ pc = "post"
    /\ resolve_channel_id(SLACK_CHANNEL_ID_RAW).raised = ""
    /\ channel_id' = resolve_channel_id(SLACK_CHANNEL_ID_RAW).value
    /\ posts' = Append(posts, ParentPost(TRUE))
    /\ thread_ts' = ParentTs
    /\ ti' = 1
    /\ pc' = "threads"
    /\ UNCHANGED <<result, TOP_K, POST_LIMIT_PER_SOURCE, SLACK_CHANNEL_ID_RAW, sources, gi,
                   items, top_list, related_map, date_label, fs, fs0, saved, requests, out,
                   deduped, deduped2>>

\* app.py:243-244 taken as a warning, the threads posted without a parent
PostParentFail_continue ==
    /\ pc = "post"
    /\ resolve_channel_id(SLACK_CHANNEL_ID_RAW).raised = ""
    /\ channel_id' = resolve_channel_id(SLACK_CHANNEL_ID_RAW).value
    /\ posts' = Append(posts, ParentPost(FALSE))
    /\ ti' = 1
    /\ pc' = "threads"
    /\ UNCHANGED <<result, TOP_K, POST_LIMIT_PER_SOURCE, SLACK_CHANNEL_ID_RAW, sources, gi,
                   items, top_list, related_map, date_label, fs, fs0, saved, requests, out,
                   thread_ts, deduped, deduped2>>

\* app.py:229-244, the parent message refused: SlackApiError, raised on as RuntimeError
PostParentFail ==
    /\ pc = "post"
    /\ resolve_channel_id(SLACK_CHANNEL_ID_RAW).raised = ""
    /\ channel_id' = resolve_channel_id(SLACK_CHANNEL_ID_RAW).value
    /\ posts' = Append(posts, ParentPost(FALSE))
    /\ pc' = "done"
    /\ result' = "raised"
    /\ UNCHANGED <<TOP_K, POST_LIMIT_PER_SOURCE, SLACK_CHANNEL_ID_RAW, sources, gi, items,
                   top_list, related_map, date_label, fs, fs0, saved, requests, out,
                   thread_ts, ti, deduped, deduped2>>

ThreadsLeft == pc = "threads" /\ ti <= Min(ThreadTopN, Len(top_list))

\* app.py:247-250, a keyword without evidence
SkipThread ==
    /\ ThreadsLeft
    /\ ThreadLinksOf(ThreadKeyword) = <<>>
    /\ ti' = ti + 1
    /\ UNCHANGED <<pc, result, TOP_K, POST_LIMIT_PER_SOURCE, SLACK_CHANNEL_ID_RAW, sources, gi,
                   items, top_list, related_map, date_label, fs, fs0, saved, requests, out,
                   posts, channel_id, thread_ts, deduped, deduped2>>

\* app.py:251-258, the follow-up delivered
PostThreadOk ==
    /\ ThreadsLeft
    /\ ThreadLinksOf(ThreadKeyword) # <<>>
    /\ posts' = Append(posts, ThreadPost(TRUE))
    /\ ti' = ti + 1
    /\ UNCHANGED <<pc, result, TOP_K, POST_LIMIT_PER_SOURCE, SLACK_CHANNEL_ID_RAW, sources, gi,
                   items, top_list, related_map, date_label, fs, fs0, saved, requests, out,
                   channel_id, thread_ts, deduped, deduped2>>

\* app.py:259-260 taken as the end of the loop
PostThreadFail_break ==
    /\ ThreadsLeft
    /\ ThreadLinksOf(ThreadKeyword) # <<>>
    /\ posts' = Append(posts, ThreadPost(FALSE))
    /\ out' = Append(out, Warn("warn_thread", ThreadKeyword))
    /\ ti' = ThreadTopN + 1
    /\ UNCHANGED <<pc, result, TOP_K, POST_LIMIT_PER_SOURCE, SLACK_CHANNEL_ID_RAW, sources, gi,
                   items, top_list, related_map, date_label, fs, fs0, saved, requests,
                   channel_id, thread_ts, deduped, deduped2>>

\* app.py:251-260, the follow-up refused: SlackApiError, printed as a warning
PostThreadFail ==
    /\ ThreadsLeft
    /\ ThreadLinksOf(ThreadKeyword) # <<>>
    /\ posts' = Append(posts, ThreadPost(FALSE))
    /\ out' = Append(out, Warn("warn_thread", ThreadKeyword))
    /\ ti' = ti + 1
    /\ UNCHANGED <<pc, result, TOP_K, POST_LIMIT_PER_SOURCE, SLACK_CHANNEL_ID_RAW, sources, gi,
                   items, top_list, related_map, date_label, fs, fs0, saved, requests,
                   channel_id, thread_ts, deduped, deduped2>>

\* the loop of app.py:247 over, app.py:316
Finish ==
    /\ pc = "threads"
    /\ ~ThreadsLeft
    /\ out' = Append(out, Status("done"))
    /\ pc' = "done"
    /\ result' = "returned"
    /\ UNCHANGED <<TOP_K, POST_LIMIT_PER_SOURCE, SLACK_CHANNEL_ID_RAW, sources, gi, items,
                   top_list, related_map, date_label, fs, fs0, saved, requests, posts,
                   channel_id, thread_ts, ti, deduped, deduped2>>

Next ==
    \/ StartWithoutChannel
    \/ Start
    \/ FetchHtmlFail
    \/ FetchHtmlOk
    \/ FetchRssFail
    \/ FetchRssOk
    \/ NoItems
    \/ NoKeywords
    \/ Analyzed
    \/ SaveMarkdown
    \/ ChannelUnresolved
    \/ PostParentOk
    \/ PostParentFail
    \/ SkipThread
    \/ PostThreadOk
    \/ PostThreadFail
    \/ Finish

Spec == Init /\ [][Next]_vars

-----------------------------------------------------------------------------
(* SpecDedup: dedup applied to every short item list, then to its own output. *)

DedupTitles == {<<"G", "o">>, <<"G", "O">>, <<"Z", "i", "g">>}
DedupItems == {Item(s, t, l) : s \in {"A", "B"}, t \in DedupTitles, l \in {<<>>, <<"u", "1">>}}

InitDedup ==
    /\ pc = "call"
    /\ items \in SeqsUpTo(DedupItems, MaxDedupLen)
    /\ TOP_K = 0
    /\ POST_LIMIT_PER_SOURCE = 0
    /\ SLACK_CHANNEL_ID_RAW = <<>>
    /\ IdleRest

DedupOnce ==
    /\ pc = "call"
    /\ deduped' = dedup(items)
    /\ pc' = "once"
    /\ UNCHANGED <<result, TOP_K, POST_LIMIT_PER_SOURCE, SLACK_CHANNEL_ID_RAW, sources, gi, items,
                   top_list, related_map, date_label, fs, fs0, saved, requests, out, posts, channel_id,
                   thread_ts, ti, deduped2>>

DedupTwice ==
    /\ pc = "once"
    /\ deduped2' = dedup(deduped)
    /\ pc' = "return"
    /\ result' = "returned"
    /\ UNCHANGED <<TOP_K, POST_LIMIT_PER_SOURCE, SLACK_CHANNEL_ID_RAW, sources, gi, items,
                   top_list, related_map, date_label, fs, fs0, saved, requests, out, posts, channel_id,
                   thread_ts, ti, deduped>>

NextDedup == DedupOnce \/ DedupTwice

SpecDedup == InitDedup /\ [][NextDedup]_vars

-----------------------------------------------------------------------------
(* SpecAnalyze: analyze applied to every short item list, under every small *)
(* TOP_K and POST_LIMIT_PER_SOURCE, both of them counts: zero or more.      *)

AnalyzeTitles == {<<"R", "u", "s", "t", " ", "G", "o">>, <<"Z", "i", "g", " ", "G", "o", " ", "R", "u", "s", "t", " ", "Z", "i", "g">>, <<"t", "h", "e", " ", "4", "2", " ", "Z", "i", "g">>}
AnalyzeItems == {Item("A", t, l) : t \in AnalyzeTitles, l \in {<<>>, <<"u", "1">>}}

InitAnalyze ==
    /\ pc = "call"
    /\ items \in SeqsUpTo(AnalyzeItems, MaxItems)
    /\ TOP_K \in 0..MaxTopK
    /\ POST_LIMIT_PER_SOURCE \in 0..MaxPostLimit
    /\ SLACK_CHANNEL_ID_RAW = <<>>
    /\ IdleRest

Analyze ==
    /\ pc = "call"
    /\ LET r == analyze(items) IN
         /\ top_list' = r.top
         /\ related_map' = r.related
    /\ pc' = "return"
    /\ result' = "returned"
    /\ UNCHANGED <<TOP_K, POST_LIMIT_PER_SOURCE, SLACK_CHANNEL_ID_RAW, sources, gi, items,
                   date_label, fs, fs0, saved, requests, out, posts, channel_id, thread_ts, ti,
                   deduped, deduped2>>

NextAnalyze == Analyze

SpecAnalyze == InitAnalyze /\ [][NextAnalyze]_vars

-----------------------------------------------------------------------------
(* SpecChannel: resolve_channel_id applied to every short channel reference. *)

ChannelPieces == {<<"C", "1", "2", "3", "4", "5", "6", "7", "8">>, <<"G", "1", "2", "3", "4", "5", "6", "7">>, <<"c", "h", "a", "n", "g", "e", "l", "o", "g">>, <<"g", "e", "n", "e", "r", "a", "l">>, <<"#">>, <<" ">>, <<"_">>}

RECURSIVE Flatten(_)
Flatten(ss) == IF ss = <<>> THEN <<>> ELSE ss[1] \o Flatten(Tail(ss))

ChannelRaws == {Flatten(ps) : ps \in SeqsUpTo(ChannelPieces, MaxPieces)}

InitChannel ==
    /\ pc = "call"
    /\ SLACK_CHANNEL_ID_RAW \in ChannelRaws
    /\ items = <<>>
    /\ TOP_K = 0
    /\ POST_LIMIT_PER_SOURCE = 0
    /\ IdleRest

ResolveChannel ==
    /\ pc = "call"
    /\ LET r == resolve_channel_id(SLACK_CHANNEL_ID_RAW) IN
         /\ channel_id' = r.value
         /\ result' = IF r.raised = "" THEN "returned" ELSE "raised"
    /\ pc' = "return"
    /\ UNCHANGED <<TOP_K, POST_LIMIT_PER_SOURCE, SLACK_CHANNEL_ID_RAW, sources, gi, items,
                   top_list, related_map, date_label, fs, fs0, saved, requests, out, posts,
                   thread_ts, ti, deduped, deduped2>>

NextChannel == ResolveChannel

SpecChannel == InitChannel /\ [][NextChannel]_vars

-----------------------------------------------------------------------------
(* SpecSave: save_markdown called again and again, from an empty docs/. *)

Days == {[y |-> 2024, m |-> 1, d |-> n] : n \in 1..MaxDays}

SaveItemLists ==
    { <<Item("Qiita", <<"R", "u", "s", "t", " ", "G", "o">>, <<"h", "t", "t", "p", "s", ":", "/", "/", "q", "i", "i", "t", "a", ".", "c", "o", "m", "/", "a", "r", "t", "i", "c", "l", "e", "s", "/", "1">>)>>,
      <<Item("GitHubTrending", <<"r", "u", "s", "t", "-", "l", "a", "n", "g", " ", "r", "u", "s", "t">>, <<"h", "t", "t", "p", "s", ":", "/", "/", "g", "i", "t", "h", "u", "b", ".", "c", "o", "m", "/", "r", "u", "s", "t", "-", "l", "a", "n", "g", "/", "r", "u", "s", "t">>),
        Item("GitHubTrending", <<"R", "u", "s", "t", " ", "t", "h", "e", " ", "2", "0", "2", "4">>, <<>>)>> }

InitSave ==
    /\ pc = "call"
    /\ TOP_K = DefaultTopK
    /\ POST_LIMIT_PER_SOURCE = DefaultPostLimit
    /\ SLACK_CHANNEL_ID_RAW = <<>>
    /\ items = <<>>
    /\ IdleRest

SaveMarkdownCall ==
    /\ pc = "call"
    /\ Len(saved) < MaxSaves
    /\ \E its \in SaveItemLists, day \in Days :
         LET r == analyze(its) IN
         /\ items' = its
         /\ top_list' = r.top
         /\ related_map' = r.related
         /\ date_label' = strftime(day)
         /\ fs' = save_markdown(fs, r.top, r.related, strftime(day))
         /\ saved' = Append(saved, strftime(day))
    /\ UNCHANGED <<pc, result, TOP_K, POST_LIMIT_PER_SOURCE, SLACK_CHANNEL_ID_RAW, sources, gi,
                   fs0, requests, out, posts, channel_id, thread_ts, ti, deduped, deduped2>>

NextSave == SaveMarkdownCall

SpecSave == InitSave /\ [][NextSave]_vars

-----------------------------------------------------------------------------
(* C6 *)

\* the subsequence of s at the indices of I, in ascending order
RECURSIVE Pick(_, _, _)
Pick(s, I, i) ==
    IF i > Len(s) THEN <<>>
    ELSE (IF i \in I THEN <<s[i]>> ELSE <<>>) \o Pick(s, I, i + 1)

IdentityKey(it) == <<lower(it.title), it.link>>

FirstOccurrences(s) ==
    {i \in 1..Len(s) : \A j \in 1..(i - 1) : IdentityKey(s[j]) # IdentityKey(s[i])}

\* C6: dedup keeps exactly the first occurrence of each key (lowercased(title), link), in the
\* original order, whatever the source name; its output has no two items of equal key, and
\* dedup of its output is that output.
C6_DedupFirstOccurrences ==
    /\ pc \in {"once", "return"} =>
         /\ deduped = Pick(items, FirstOccurrences(items), 1)
         /\ \A i, j \in 1..Len(deduped) :
               IdentityKey(deduped[i]) = IdentityKey(deduped[j]) => i = j
    /\ pc = "return" => deduped2 = deduped

\* a list with a later item that differs from an earlier one in source and letter case only
C6_Witness ==
    /\ pc = "return"
    /\ Len(deduped) < Len(items)
    /\ Len(deduped) >= 2
    /\ \E i, j \in 1..Len(items) :
          /\ i < j
          /\ items[i].src # items[j].src
          /\ items[i].title # items[j].title
          /\ IdentityKey(items[i]) = IdentityKey(items[j])

-----------------------------------------------------------------------------
(* C4, C5, C10 *)

RECURSIVE TokenStream(_, _)
\* the tokens of all titles, in scan order, repeats included
TokenStream(its, i) ==
    IF i > Len(its) THEN <<>>
    ELSE extract_tokens(its[i].title) \o TokenStream(its, i + 1)

Occurrences(ts, t) == Cardinality({p \in 1..Len(ts) : ts[p] = t})

FirstPos(ts, t) == CHOOSE p \in 1..Len(ts) : ts[p] = t /\ \A q \in 1..(p - 1) : ts[q] # t

\* where t reaches its final count: its last occurrence
ReachPos(ts, t) == CHOOSE p \in 1..Len(ts) : ts[p] = t /\ \A q \in (p + 1)..Len(ts) : ts[q] # t

Eligible(its, k) ==
    SelectSeq(its, LAMBDA it : it.link # <<>> /\ k \in Range(extract_tokens(it.title)))

TopKeys == {top_list[j].k : j \in 1..Len(top_list)}

\* C4: the evidence list of each ranked keyword is exactly the first
\* min(POST_LIMIT_PER_SOURCE, n) eligible items of the item list in scan order, an item being
\* eligible when its link is non-empty and the token set of its title holds the keyword.
C4_EvidenceIsEligiblePrefix ==
    pc = "return" =>
        /\ DOMAIN related_map = TopKeys
        /\ \A k \in TopKeys :
              LET e == Eligible(items, k)
                  r == related_map[k]
              IN /\ r = SubSeq(e, 1, Min(POST_LIMIT_PER_SOURCE, Len(e)))
                 /\ Len(r) <= POST_LIMIT_PER_SOURCE
                 /\ \A i \in 1..Len(r) :
                       r[i].link # <<>> /\ k \in Range(extract_tokens(r[i].title))

\* a keyword with more eligible items than the limit, and an item of its title without a link
C4_Witness ==
    /\ pc = "return"
    /\ \E k \in TopKeys :
          /\ Len(Eligible(items, k)) > POST_LIMIT_PER_SOURCE
          /\ Len(related_map[k]) = POST_LIMIT_PER_SOURCE
          /\ \E i \in 1..Len(items) :
                items[i].link = <<>> /\ k \in Range(extract_tokens(items[i].title))

\* C5: the ranked list has min(TOP_K, number of distinct tokens) entries, counts non-increasing,
\* each count the number of occurrences of that exact token over all titles.
C5_RankingCounts ==
    pc = "return" =>
        LET ts == TokenStream(items, 1) IN
        /\ Len(top_list) = Min(TOP_K, Cardinality(Range(ts)))
        /\ Len(top_list) <= TOP_K
        /\ \A i \in 1..Len(top_list) :
              /\ top_list[i].c = Occurrences(ts, top_list[i].k)
              /\ top_list[i].c >= 1
              /\ i < Len(top_list) => top_list[i].c >= top_list[i + 1].c

\* more distinct tokens than TOP_K, a token repeated inside one title, and a title without a link
C5_Witness ==
    /\ pc = "return"
    /\ Cardinality(Range(TokenStream(items, 1))) > TOP_K
    /\ Len(top_list) = TOP_K
    /\ TOP_K >= 2
    /\ top_list[1].c > top_list[2].c
    /\ \E i \in 1..Len(items) :
          /\ items[i].link = <<>>
          /\ \E p, q \in 1..Len(extract_tokens(items[i].title)) :
                p # q /\ extract_tokens(items[i].title)[p] = extract_tokens(items[i].title)[q]

\* C10 as stated: among tokens of equal count, the one that reached that count first is ranked
\* (and, at the cut-off, selected) ahead.
C10_TieByReachingCount ==
    pc = "return" =>
        LET ts == TokenStream(items, 1) IN
        /\ \A i, j \in 1..Len(top_list) :
              (i < j /\ top_list[i].c = top_list[j].c)
                  => ReachPos(ts, top_list[i].k) < ReachPos(ts, top_list[j].k)
        /\ \A i \in 1..Len(top_list) : \A t \in Range(ts) \ TopKeys :
              Occurrences(ts, t) = top_list[i].c
                  => ReachPos(ts, top_list[i].k) < ReachPos(ts, t)

\* C10, amended: among tokens of equal count, the one inserted first into the frequency table,
\* that is the one that occurs first in scan order, is ranked (and, at the cut-off, selected)
\* ahead; no unranked token has a higher count than a ranked one.
C10_TieByFirstOccurrence ==
    pc = "return" =>
        LET ts == TokenStream(items, 1) IN
        /\ \A i, j \in 1..Len(top_list) :
              (i < j /\ top_list[i].c = top_list[j].c)
                  => FirstPos(ts, top_list[i].k) < FirstPos(ts, top_list[j].k)
        /\ \A i \in 1..Len(top_list) : \A t \in Range(ts) \ TopKeys :
              /\ Occurrences(ts, t) <= top_list[i].c
              /\ Occurrences(ts, t) = top_list[i].c
                    => FirstPos(ts, top_list[i].k) < FirstPos(ts, t)

\* two ranked tokens of equal count whose first occurrences and last occurrences are in
\* opposite orders, and a third token of that count cut off
C10_Witness ==
    /\ pc = "return"
    /\ Len(top_list) >= 2
    /\ top_list[1].c = top_list[2].c
    /\ LET ts == TokenStream(items, 1) IN
         /\ ReachPos(ts, top_list[1].k) > ReachPos(ts, top_list[2].k)
         /\ \E t \in Range(ts) \ TopKeys : Occurrences(ts, t) = top_list[Len(top_list)].c

-----------------------------------------------------------------------------
(* C1, C2, C3, C7 *)

AllUrls ==
    [i \in 1..Len(sources.html) |-> sources.html[i].url]
    \o [i \in 1..Len(sources.rss) |-> sources.rss[i].url]

LastOut == out[Len(out)]

FetchesInOrder ==
    /\ pc = "html" => requests = SubSeq(AllUrls, 1, gi - 1)
    /\ pc = "rss" => requests = SubSeq(AllUrls, 1, Len(sources.html) + gi - 1)
    /\ pc \in {"check", "save", "post", "threads", "done"} => requests = AllUrls

FailedFetchIsContained ==
    (Len(out') = Len(out) + 1 /\ out'[Len(out')].msg \in {"warn_html", "warn_rss"})
        => /\ items' = items
           /\ result' = "running"
           /\ pc' \in {"html", "rss", "check"}
           /\ Len(requests') = Len(requests) + 1

C2_EmptyRunEmitsNothing ==
    (pc = "done" /\ SLACK_CHANNEL_ID_RAW # <<>> /\ TokenStream(items, 1) = <<>>)
        => /\ result = "returned"
           /\ requests = AllUrls
           /\ fs = fs0
           /\ posts = <<>>
           /\ LastOut.msg = (IF items = <<>> THEN "no_items" ELSE "no_keywords")

\* two sources, both failed, over a docs/ that holds an index already
C2_Witness ==
    /\ pc = "done"
    /\ Len(requests) >= 2
    /\ Len(out) = Len(requests) + 1
    /\ items = <<>>
    /\ IndexPath \in DOMAIN fs0

\* non-empty items without a keyword
C2_WitnessNoKeywords ==
    /\ pc = "done"
    /\ items # <<>>
    /\ top_list = <<>>
    /\ IndexPath \in DOMAIN fs0

ParentFailed == Len(posts) >= 1 /\ posts[1].kind = "parent" /\ ~posts[1].ok
ParentDelivered == Len(posts) >= 1 /\ posts[1].kind = "parent" /\ posts[1].ok

\* C3: when the parent message is refused the run ends raised with no threaded follow-up
\* attempted; the digest page and the index entry of the run were written before the parent
\* message was attempted and are still there.
C3_ParentFailureAborts ==
    /\ ParentFailed => (pc = "done" /\ result = "raised" /\ Len(posts) = 1)
    /\ posts # <<>> =>
         /\ DocPath(date_label) \in DOMAIN fs
         /\ fs[DocPath(date_label)] # <<>>
         /\ IndexPath \in DOMAIN fs
         /\ \E i \in 1..Len(fs[IndexPath]) : fs[IndexPath][i] = Entry(date_label)

\* the parent refused in a run whose first keyword has evidence, over an earlier index
C3_Witness ==
    /\ ParentFailed
    /\ Len(top_list) >= 1
    /\ RelatedGet(related_map, top_list[1].k) # <<>>
    /\ IndexPath \in DOMAIN fs0
    /\ fs # fs0

\* the keywords of the first three ranks that have evidence, in rank order
ThreadKeywords ==
    LET first3 == SubSeq(top_list, 1, Min(3, Len(top_list)))
        withEvidence == SelectSeq(first3, LAMBDA e : RelatedGet(related_map, e.k) # <<>>)
    IN [i \in 1..Len(withEvidence) |-> withEvidence[i].k]

ThreadWarnings == Cardinality({i \in 1..Len(out) : out[i].msg = "warn_thread"})
ThreadFailures == Cardinality({i \in 2..Len(posts) : ~posts[i].ok})

\* C7: with the parent delivered, one follow-up is attempted, in rank order, for each of the
\* first three ranked keywords that has evidence, each with at most 5 evidence links and the
\* timestamp of the parent; a refused follow-up is printed as a warning, the later ones are
\* still attempted, and the run returns.
C7_ThreadsAllAttempted ==
    ParentDelivered =>
        /\ pc \in {"threads", "done"}
        /\ result # "raised"
        /\ Len(posts) - 1 <= 3
        /\ Len(posts) - 1 <= Len(ThreadKeywords)
        /\ \A i \in 2..Len(posts) :
              /\ posts[i].kind = "thread"
              /\ posts[i].keyword = ThreadKeywords[i - 1]
              /\ posts[i].thread_ts = thread_ts
              /\ posts[i].thread_ts # posts[1].thread_ts
              /\ posts[i].channel = posts[1].channel
              /\ Len(posts[i].body) <= 5
              /\ posts[i].body =
                    SubSeq(related_map[posts[i].keyword], 1,
                           Min(5, Len(related_map[posts[i].keyword])))
        /\ ThreadWarnings = ThreadFailures
        /\ pc = "done" =>
              /\ result = "returned"
              /\ Len(posts) - 1 = Len(ThreadKeywords)
              /\ LastOut.msg = "done"

\* four ranked keywords with evidence, the first of them with more than 5 links: three
\* follow-ups attempted, the first refused
C7_Witness ==
    /\ pc = "done"
    /\ ParentDelivered
    /\ Len(posts) = 4
    /\ ~posts[2].ok
    /\ posts[4].ok
    /\ Len(top_list) >= 4
    /\ RelatedGet(related_map, top_list[4].k) # <<>>
    /\ Len(related_map[top_list[1].k]) > 5
    /\ Len(posts[2].body) = 5

-----------------------------------------------------------------------------
(* C8 *)

Reverse(s) == [i \in 1..Len(s) |-> s[Len(s) + 1 - i]]

FirstRuns(s) == Pick(s, {i \in 1..Len(s) : \A j \in 1..(i - 1) : s[j] # s[i]}, 1)

RECURSIVE EntryAtoms(_)
EntryAtoms(ds) ==
    IF ds = <<>> THEN <<>> ELSE <<NL, Entry(ds[1])>> \o EntryAtoms(Tail(ds))

\* C8: after save_markdown calls with any sequence of date labels, from no index document,
\* the index is the two-line header followed by one entry line per distinct date label, the
\* label first saved latest on top: a repeated label changes nothing, a new one goes right
\* after the header.
C8_IndexOneEntryPerDate ==
    /\ saved = <<>> => IndexPath \notin DOMAIN fs
    /\ saved # <<>> =>
         /\ IndexPath \in DOMAIN fs
         /\ fs[IndexPath] = <<IndexTitle, NL>> \o EntryAtoms(Reverse(FirstRuns(saved)))
         /\ \A i \in 1..Len(saved) : DocPath(saved[i]) \in DOMAIN fs

\* three calls: a label, another one, the first again
C8_Witness ==
    /\ Len(saved) = 3
    /\ saved[1] = saved[3]
    /\ saved[1] # saved[2]

-----------------------------------------------------------------------------
(* C9 *)

\* the identifier a channel reference holds as it is written
WrittenId == ID_RE_search(strip(SLACK_CHANNEL_ID_RAW))

\* the reference without its leading # characters, cut at the first whitespace
WrittenName == split(lstrip(strip(SLACK_CHANNEL_ID_RAW), {"#"}), 1)

\* C9: for a non-empty channel reference resolve_channel_id returns the identifier the
\* reference holds (C or G and at least 8 alphanumerics) when it holds one, and otherwise
\* its first whitespace-delimited token, the leading # stripped, with the same characters
\* and the same letter case.
C9_ChannelIdOrNameUnchanged ==
    (pc = "return" /\ SLACK_CHANNEL_ID_RAW # <<>>) =>
        IF WrittenId.found
        THEN result = "returned" /\ channel_id = WrittenId.text
        ELSE WrittenName # <<>> => (result = "returned" /\ channel_id = WrittenName[1])

====
